---- MODULE Spec2Model ----
(***************************************************************************)
(* A model of extract.py: the WhatsApp Google-Drive backup extractor.      *)
(*                                                                         *)
(* Spec          the `sync` command: main's loop over the backups, one     *)
(*               ThreadPool per backup (task handler thread, workers,      *)
(*               result loop), the md5sum.txt log, the destination files,  *)
(*               the process being killed and run again.                   *)
(* SpecList      the `list` command: main's loop over list_path.           *)
(* SpecHaveFile  have_file applied to every local file state and every     *)
(*               expected (size, md5).                                     *)
(***************************************************************************)
EXTENDS Integers, Sequences, FiniteSets, TLC

\* ------------------------------------------------------------------ bounds

\* Files of the first backup (the second backup is empty).
MaxFiles == 3
\* Pages of a file listing.
MaxPages == 2
\* Worker threads of the pool. extract.py:160 builds ThreadPool(10); the model
\* is parametric in the size and is checked with fewer workers than files.
PoolSize == 2
\* Requests that may fail in one run of the process.
MaxFail == 1
\* Runs of the process against the same remote and destination directory.
MaxRuns == 2

\* ------------------------------------------------------------------ values

\* A field of a JSON record that is absent, and one that is present but does
\* not parse (int() of a non-number, b64decode of invalid base64).
Missing == -1
Garbled == -2

None == 0

Byte == 0..3

RECURSIVE SumSeq(_)
SumSeq(s) == IF s = <<>> THEN 0 ELSE Head(s) + SumSeq(Tail(s))

RECURSIVE Flatten(_)
Flatten(ss) == IF ss = <<>> THEN <<>> ELSE Head(ss) \o Flatten(Tail(ss))

Prefix(s, n) == SubSeq(s, 1, n)

IsPrefix(p, s) == Len(p) <= Len(s) /\ Prefix(s, Len(p)) = p

\* hashlib.md5 over the bytes read: a digest, many contents to one value.
md5(bytes) == SumSeq(bytes) % 4

\* ------------------------------------------------------------------ remote

\* The remote holds two backups; the first has MaxFiles files, the second none.
FileIds == 1..MaxFiles

Segment(i) == <<"f1", "f2", "f3", "f4", "f5", "f6">>[i]

\* The resource names the server gives a backup and a file of it.
BackupName(b) == <<"clients", "wa", "backups", b>>

FileName(b, i) == BackupName(b) \o <<"files", Segment(i)>>

\* The bytes the server streams for a file with alt=media, one chunk each.
Content(i) == <<<<1, 0>>, <<2>>, <<1, 2>>>>[((i - 1) % 3) + 1]

\* The body of an HTTP error response: no prefix of it is a file's content.
ErrBody == <<3, 3>>

\* The record the server lists for a file: name, sizeBytes, md5Hash.
FileRecord(b, i) ==
    [name |-> FileName(b, i), sizeBytes |-> Len(Content(i)), md5Hash |-> md5(Content(i))]

\* A record with one field absent or garbled.
Malform(rec, field, how) == [rec EXCEPT ![field] = how]

Defects == {<<"sizeBytes", Missing>>, <<"md5Hash", Garbled>>}

\* Page sizes p1..pK (K <= MaxPages) of a listing of n records.
Layouts(n) ==
    {l \in UNION {[1..k -> 0..n] : k \in 1..MaxPages} : SumSeq(l) = n}

\* Records lo+1 .. lo+n of the first backup, in server order.
RECURSIVE Cut(_, _)
Cut(recs, layout) ==
    IF layout = <<>> THEN <<>>
    ELSE <<Prefix(recs, Head(layout))>>
         \o Cut(SubSeq(recs, Head(layout) + 1, Len(recs)), Tail(layout))

Declared == SumSeq([i \in 1..MaxFiles |-> Len(Content(i))])

Remote(layout, bad, defect, declared) ==
    [layout |-> layout, bad |-> bad, defect |-> defect, declared |-> declared]

\* The remotes a run may face: the first backup's files paged in every way;
\* or one of its records malformed; or its declared sizeBytes zero. bad is the
\* place of the malformed record (0: none).
Remotes ==
    {Remote(l, 0, <<"sizeBytes", Missing>>, Declared) : l \in Layouts(MaxFiles)}
    \cup {Remote(<<MaxFiles - 1, 1>>, i, d, Declared) : i \in 1..MaxFiles, d \in Defects}
    \cup {Remote(<<MaxFiles>>, 0, <<"sizeBytes", Missing>>, 0)}

Records(rem, b) ==
    IF b = "b1"
    THEN [i \in 1..MaxFiles |->
            IF i = rem.bad
            THEN Malform(FileRecord(b, i), rem.defect[1], rem.defect[2])
            ELSE FileRecord(b, i)]
    ELSE <<>>

\* The pages of the listing <backup>/files, and of clients/wa/backups.
FilePages(rem, b) ==
    IF b = "b1" THEN Cut(Records(rem, b), rem.layout) ELSE <<Records(rem, b)>>

BackupRecord(rem, b) ==
    [name |-> BackupName(b),
     sizeBytes |-> IF b = "b1" THEN rem.declared ELSE 1]

BackupPages(rem) == <<<<BackupRecord(rem, "b1")>>, <<BackupRecord(rem, "b2")>>>>

\* The server's answer to GET <path>?pageToken=t: the page after the one that
\* returned t (the first for no token), with nextPageToken unless it is the last.
ServePage(pages, token) ==
    LET n == token + 1 IN
    [listed |-> TRUE, items |-> pages[n], hasNext |-> n < Len(pages), nextPageToken |-> n]

\* The JSON object of an error response: neither the listing nor a token.
ErrorObject == [listed |-> FALSE, items |-> <<>>, hasNext |-> FALSE, nextPageToken |-> 0]

\* ------------------------------------------------------------------ functions

\* The local path of a file: os.path.join(*file['name'].split("/")[3:]).
LocalName(name) == SubSeq(name, 4, Len(name))

LocalNames == {LocalName(FileName("b1", i)) : i \in FileIds}

NoFile == [exists |-> FALSE, data |-> <<>>]

OnDisk(bytes) == [exists |-> TRUE, data |-> bytes]

\* have_file without the size gate of line 43.
have_file_nosize(f, size, md5Hash) ==
    IF ~f.exists THEN [result |-> FALSE, read |-> FALSE]
    ELSE [result |-> md5Hash = md5(f.data), read |-> TRUE]

\* have_file(file, size, md5) on the file state f: the value returned, and
\* whether the file was opened and its content read and hashed.
have_file(f, size, md5Hash) ==
    IF ~f.exists \/ size # Len(f.data)
    THEN [result |-> FALSE, read |-> FALSE]
    ELSE [result |-> md5Hash = md5(f.data), read |-> TRUE]

\* WaBackup.get: the response object returned for each outcome of the request.
\* An HTTP error status raises inside the try after `response` is assigned, so
\* the server's error response is returned; a connection failure or a timeout
\* raises before the assignment and the default-constructed requests.Response()
\* is returned. No outcome makes get raise.
Outcomes == {"ok", "HTTPError", "ConnectionError"}

get(outcome) ==
    CASE outcome = "ok" -> "served"
      [] outcome = "HTTPError" -> "error"
      [] OTHER -> "default"

\* WaBackup.get_page: response.json(). The default response has no content
\* and .json() raises a JSONDecodeError, which is a ValueError; otherwise the
\* body is parsed, the page of a served response or the error object.
json(response) == IF response = "default" THEN "ValueError" ELSE "none"

get_page(response, served) == IF response = "served" THEN served ELSE ErrorObject

\* The exception, if any, raised by fetch before have_file is called: the
\* lookups and conversions of lines 147-150, in their order.
fetch_args(file) ==
    CASE file.md5Hash = Missing -> "KeyError"
      [] file.md5Hash = Garbled -> "ValueError"
      [] file.sizeBytes = Missing -> "KeyError"
      [] file.sizeBytes = Garbled -> "ValueError"
      [] OTHER -> "none"

\* ------------------------------------------------------------------ list_path

\* The generator list_path(path): where it stands (about to request a page,
\* inside the for loop over a page with item i the next to yield, returned,
\* raised), its page_token and page, and, as a record of what it has done, the
\* page tokens it has sent and the items it has yielded.
NoPage == [listed |-> TRUE, items |-> <<>>, hasNext |-> FALSE, nextPageToken |-> None]

list_path ==
    [pc |-> "request", page_token |-> None, page |-> NoPage, i |-> 1,
     exc |-> "none", requests |-> <<>>, yielded |-> <<>>]

NotStarted == [list_path EXCEPT !.pc = "unborn"]

\* list_path testing for nextPageToken before the page's items are yielded.
LpLoop_tokenfirst(g) ==
    IF ~g.page.hasNext THEN [g EXCEPT !.pc = "done"]
    ELSE IF g.i <= Len(g.page.items) THEN [g EXCEPT !.pc = "items"]
    ELSE [g EXCEPT !.pc = "request", !.page_token = g.page.nextPageToken]

\* list_path going for the next page while the last item of the page it holds
\* is still to be yielded.
LpLoop_prefetch(g) ==
    IF g.i < Len(g.page.items) THEN [g EXCEPT !.pc = "items"]
    ELSE IF g.page.hasNext
         THEN [g EXCEPT !.pc = "request", !.page_token = g.page.nextPageToken]
    ELSE IF g.i <= Len(g.page.items) THEN [g EXCEPT !.pc = "items"]
    ELSE [g EXCEPT !.pc = "done"]

\* Lines 129-135 from the for statement on: the next item is due, or the page
\* is exhausted and the loop breaks (no nextPageToken) or goes round.
LpLoop(g) ==
    IF g.i <= Len(g.page.items) THEN [g EXCEPT !.pc = "items"]
    ELSE IF ~g.page.hasNext THEN [g EXCEPT !.pc = "done"]
    ELSE [g EXCEPT !.pc = "request", !.page_token = g.page.nextPageToken]

\* list_path reading the listing with page.get(last_component, []).
LpRequest_get(g, pages, outcome) ==
    LET sent == [g EXCEPT !.requests = Append(@, g.page_token)]
        response == get(outcome)
        page == get_page(response, ServePage(pages, g.page_token))
    IN  IF json(response) # "none" THEN [sent EXCEPT !.pc = "raised", !.exc = json(response)]
        ELSE LpLoop([sent EXCEPT !.page = page, !.i = 1])

\* Lines 127-129: one page request with the given outcome, then
\* page[last_component] (a KeyError if the object has no such key), up to the
\* next yield, request, return or raise.
LpRequest(g, pages, outcome) ==
    LET sent == [g EXCEPT !.requests = Append(@, g.page_token)]
        response == get(outcome)
        page == get_page(response, ServePage(pages, g.page_token))
    IN  IF json(response) # "none" THEN [sent EXCEPT !.pc = "raised", !.exc = json(response)]
        ELSE IF ~page.listed THEN [sent EXCEPT !.pc = "raised", !.exc = "KeyError"]
        ELSE LpLoop([sent EXCEPT !.page = page, !.i = 1])

\* Line 130: the item yielded, and the generator resumed up to its next stop.
LpItem(g) == g.page.items[g.i]

LpYield(g) == LpLoop([g EXCEPT !.i = @ + 1, !.yielded = Append(@, LpItem(g))])

\* ------------------------------------------------------------------ state

VARIABLES
    remote,     \* the remote catalog (never changes)
    run,        \* how many times the process has been started
    prev,       \* the previous run: its end, its failed requests, the backups it synced
    fails,      \* requests that have failed in this run
    mpc,        \* where main is
    crash,      \* the uncaught exception that ended the run, and where
    bgen,       \* main's generator wa_backup.backups()
    backup,     \* main's loop variable
    fgen,       \* the generator backup_files(backup) the pool iterates
    handler,    \* the pool's task handler thread
    inqueue,    \* the pool's task queue
    workers,    \* the pool's worker threads that are running a task
    orphans,    \* workers of terminated pools still running their task
    results,    \* results the imap_unordered iterator holds for main
    length,     \* the iterator's _length (-1 for None)
    index,      \* the iterator's _index
    num_files,  \* fetch_all's (and list's) counters
    total_size,
    cksums,     \* the lines of md5sum.txt
    disk,       \* the destination files
    requested,  \* the media requests issued in this run
    reports,    \* what main has printed per backup
    hf,         \* SpecHaveFile: the inputs and the outcome of one have_file call
    pf          \* SpecPath: a record name and where fetch writes for it

vars == <<remote, run, prev, fails, mpc, crash, bgen, backup, fgen, handler, inqueue,
          workers, orphans, results, length, index, num_files, total_size, cksums,
          disk, requested, reports, hf, pf>>

pool == <<fgen, handler, inqueue, workers, results, length, index, num_files, total_size>>

NoRecord == [name |-> <<>>, sizeBytes |-> 0, md5Hash |-> 0]

NoBackup == [name |-> <<>>, sizeBytes |-> 0]

Idle == [pc |-> "idle", file |-> NoRecord, response |-> "none", left |-> <<>>]

NoCrash == [exc |-> "none", at |-> "none"]

NoPf == [name |-> <<>>, called |-> FALSE, exc |-> "none", path |-> <<>>,
         where |-> "none", written |-> FALSE]

NoHf == [f |-> NoFile, size |-> 0, md5Hash |-> 0, result |-> FALSE, read |-> FALSE, called |-> FALSE]

FirstRun == [end |-> "none", fails |-> 0, synced |-> {}]

\* The process as main finds it at line 305: md5sum.txt opened with 'w', the
\* backups generator created, no pool yet.
Started ==
    /\ fails = 0
    /\ mpc = "backups"
    /\ crash = NoCrash
    /\ bgen = list_path
    /\ backup = NoBackup
    /\ fgen = NotStarted
    /\ handler = "none"
    /\ inqueue = <<>>
    /\ workers = {}
    /\ orphans = {}
    /\ results = <<>>
    /\ length = -1
    /\ index = 0
    /\ num_files = 0
    /\ total_size = 0
    /\ cksums = <<>>
    /\ requested = {}
    /\ reports = <<>>

\* A start that opens md5sum.txt with 'a': the lines of earlier runs are kept.
Start_append ==
    /\ fails' = 0
    /\ mpc' = "backups"
    /\ crash' = NoCrash
    /\ bgen' = list_path
    /\ backup' = NoBackup
    /\ fgen' = NotStarted
    /\ handler' = "none"
    /\ inqueue' = <<>>
    /\ workers' = {}
    /\ orphans' = {}
    /\ results' = <<>>
    /\ length' = -1
    /\ index' = 0
    /\ num_files' = 0
    /\ total_size' = 0
    /\ cksums' = cksums
    /\ requested' = {}
    /\ reports' = <<>>

\* The same, of the next state: line 306 opens md5sum.txt with 'w', which
\* empties it.
Start ==
    /\ fails' = 0
    /\ mpc' = "backups"
    /\ crash' = NoCrash
    /\ bgen' = list_path
    /\ backup' = NoBackup
    /\ fgen' = NotStarted
    /\ handler' = "none"
    /\ inqueue' = <<>>
    /\ workers' = {}
    /\ orphans' = {}
    /\ results' = <<>>
    /\ length' = -1
    /\ index' = 0
    /\ num_files' = 0
    /\ total_size' = 0
    /\ cksums' = <<>>
    /\ requested' = {}
    /\ reports' = <<>>

Init ==
    /\ remote \in Remotes
    /\ run = 1
    /\ prev = FirstRun
    /\ disk = [n \in LocalNames |-> NoFile]
    /\ hf = NoHf
    /\ pf = NoPf
    /\ Started

Running == mpc \in {"backups", "results"}

\* The outcomes a request may have: a failure only within the budget.
MayBe(outcome) == outcome = "ok" \/ fails < MaxFail

Failed(outcome) == IF outcome = "ok" THEN 0 ELSE 1

\* ------------------------------------------------------------------ fetch

\* The bytes the server streams for GET <name>?alt=media.
Media(name) == Content(CHOOSE i \in FileIds : Segment(i) = name[Len(name)])

Ok(file) == [ok |-> TRUE, name |-> LocalName(file.name), size |-> file.sizeBytes,
             md5_hash |-> file.md5Hash, exc |-> "none"]

Raised(exc) == [ok |-> FALSE, name |-> <<>>, size |-> 0, md5_hash |-> 0, exc |-> exc]

Task(func, file, exc) == [func |-> func, file |-> file, exc |-> exc]

\* A step of a thread running fetch gives the thread's next state, the file
\* state it leaves (same: the file is untouched) and the result it returns, if
\* the call ended.
Step(w, f, res) == [w |-> w, f |-> f, res |-> res]

\* fetch without the have_file test of line 150.
fetch_always(file, f) ==
    IF fetch_args(file) # "none" THEN Step(Idle, f, <<Raised(fetch_args(file))>>)
    ELSE Step([Idle EXCEPT !.pc = "request", !.file = file], f, <<>>)

\* fetch, lines 147-150: from the call to the media request, or to the return
\* or raise when there is none. f is the state of the destination file.
fetch(file, f) ==
    IF fetch_args(file) # "none" THEN Step(Idle, f, <<Raised(fetch_args(file))>>)
    ELSE IF have_file(f, file.sizeBytes, file.md5Hash).result
         THEN Step(Idle, f, <<Ok(file)>>)
         ELSE Step([Idle EXCEPT !.pc = "request", !.file = file], f, <<>>)

\* download_file opening the file with 'ab': what is there is kept.
download_file_append(w, f, outcome) ==
    LET body == IF get(outcome) = "served" THEN Media(w.file.name) ELSE ErrBody IN
    IF get(outcome) = "default"
    THEN Step(Idle, OnDisk(f.data), <<Raised("AttributeError")>>)
    ELSE Step([w EXCEPT !.pc = "stream", !.response = get(outcome), !.left = body],
              OnDisk(f.data), <<>>)

\* Line 151: self.get(..., stream=True) returns; download_file makes the
\* directories and opens the file with 'bw', which truncates it. The default
\* response has no raw stream: its iter_content raises AttributeError at the
\* first chunk. An error response streams its body like any other.
download_file(w, f, outcome) ==
    LET body == IF get(outcome) = "served" THEN Media(w.file.name) ELSE ErrBody IN
    IF get(outcome) = "default"
    THEN Step(Idle, OnDisk(<<>>), <<Raised("AttributeError")>>)
    ELSE IF body = <<>> THEN Step(Idle, OnDisk(<<>>), <<Ok(w.file)>>)
    ELSE Step([w EXCEPT !.pc = "stream", !.response = get(outcome), !.left = body],
              OnDisk(<<>>), <<>>)

\* Line 66: one chunk written; after the last the file is closed and fetch
\* returns (name, size, md5_hash) as the record declares them. The bytes
\* written are taken to be on disk at once: a kill that loses buffered bytes
\* leaves a shorter prefix, which is the state an earlier kill leaves.
write(w, f) ==
    LET rest == Tail(w.left)
        g == OnDisk(Append(f.data, Head(w.left)))
    IN  IF rest = <<>> THEN Step(Idle, g, <<Ok(w.file)>>)
        ELSE Step([w EXCEPT !.left = rest], g, <<>>)

Local(w) == LocalName(w.file.name)

\* What a set of threads becomes when thread w takes a step.
After(threads, w, step) == (threads \ {w}) \cup ({step.w} \ {Idle})

\* ------------------------------------------------------------------ the pool

\* A pool that starts a thread for every task.
idle_worker_any(busy) == TRUE

\* ThreadPool(10): a task is taken only by a worker thread that is not running
\* one, and there are PoolSize worker threads.
idle_worker(busy) == Cardinality(busy) < PoolSize

\* A worker thread takes the next task and runs it up to its first request:
\* fetch, or the re-raise of an exception list_path raised.
WorkerTake ==
    /\ mpc = "results"
    /\ idle_worker(workers)
    /\ inqueue # <<>>
    /\ LET task == Head(inqueue)
           step == IF task.func = "fetch"
                   THEN fetch(task.file, disk[LocalName(task.file.name)])
                   ELSE Step(Idle, NoFile, <<Raised(task.exc)>>)
       IN  /\ workers' = After(workers, Idle, step)
           /\ results' = results \o step.res
    /\ inqueue' = Tail(inqueue)
    /\ UNCHANGED <<remote, run, prev, fails, mpc, crash, bgen, backup, fgen, handler,
                   orphans, length, index, num_files, total_size, cksums, disk,
                   requested, reports, hf, pf>>

WorkerRequest ==
    /\ mpc = "results"
    /\ \E w \in workers, outcome \in Outcomes :
        /\ w.pc = "request"
        /\ MayBe(outcome)
        /\ fails' = fails + Failed(outcome)
        /\ LET step == download_file(w, disk[Local(w)], outcome) IN
            /\ workers' = After(workers, w, step)
            /\ disk' = [disk EXCEPT ![Local(w)] = step.f]
            /\ results' = results \o step.res
        /\ requested' = requested \cup {Local(w)}
    /\ UNCHANGED <<remote, run, prev, mpc, crash, bgen, backup, fgen, handler, inqueue,
                   orphans, length, index, num_files, total_size, cksums, reports, hf, pf>>

\* A worker that writes the line of md5sum.txt itself when its file is written.
WorkerWrite_logs ==
    /\ mpc = "results"
    /\ \E w \in workers :
        /\ w.pc = "stream"
        /\ LET step == write(w, disk[Local(w)]) IN
            /\ workers' = After(workers, w, step)
            /\ disk' = [disk EXCEPT ![Local(w)] = step.f]
            /\ results' = results \o step.res
            /\ cksums' = IF step.res = <<>> THEN cksums
                          ELSE Append(cksums, [hex |-> step.res[1].md5_hash,
                                               name |-> step.res[1].name])
    /\ UNCHANGED <<remote, run, prev, fails, mpc, crash, bgen, backup, fgen, handler,
                   inqueue, orphans, length, index, num_files, total_size,
                   requested, reports, hf, pf>>

\* Line 66 in a worker thread: the next chunk of the response is written.
WorkerWrite ==
    /\ mpc = "results"
    /\ \E w \in workers :
        /\ w.pc = "stream"
        /\ LET step == write(w, disk[Local(w)]) IN
            /\ workers' = After(workers, w, step)
            /\ disk' = [disk EXCEPT ![Local(w)] = step.f]
            /\ results' = results \o step.res
    /\ UNCHANGED <<remote, run, prev, fails, mpc, crash, bgen, backup, fgen, handler,
                   inqueue, orphans, length, index, num_files, total_size, cksums,
                   requested, reports, hf, pf>>

\* A thread of a terminated pool finishes the task it was running; nobody
\* reads its result.
OrphanRequest ==
    /\ Running
    /\ \E o \in orphans, outcome \in Outcomes :
        /\ o.pc = "request"
        /\ MayBe(outcome)
        /\ fails' = fails + Failed(outcome)
        /\ LET step == download_file(o, disk[Local(o)], outcome) IN
            /\ orphans' = After(orphans, o, step)
            /\ disk' = [disk EXCEPT ![Local(o)] = step.f]
        /\ requested' = requested \cup {Local(o)}
    /\ UNCHANGED <<remote, run, prev, mpc, crash, bgen, backup, pool, cksums, reports, hf, pf>>

OrphanWrite ==
    /\ Running
    /\ \E o \in orphans :
        /\ o.pc = "stream"
        /\ LET step == write(o, disk[Local(o)]) IN
            /\ orphans' = After(orphans, o, step)
            /\ disk' = [disk EXCEPT ![Local(o)] = step.f]
    /\ UNCHANGED <<remote, run, prev, fails, mpc, crash, bgen, backup, pool, cksums,
                   requested, reports, hf, pf>>

\* The task handler thread iterates backup_files(backup): a page request ...
TaskRequest ==
    /\ mpc = "results"
    /\ handler = "run"
    /\ fgen.pc = "request"
    /\ \E outcome \in Outcomes :
        /\ MayBe(outcome)
        /\ fails' = fails + Failed(outcome)
        /\ LET g == LpRequest(fgen, FilePages(remote, backup.name[4]), outcome) IN
            /\ fgen' = g
            /\ handler' = IF g.pc \in {"done", "raised"} THEN "done" ELSE "run"
            \* _guarded_task_generation turns the exception into one more task
            /\ inqueue' = IF g.pc = "raised"
                          THEN Append(inqueue, Task("reraise", NoRecord, g.exc))
                          ELSE inqueue
            /\ length' = CASE g.pc = "raised" -> Len(g.yielded) + 1
                           [] g.pc = "done" -> Len(g.yielded)
                           [] OTHER -> length
    /\ UNCHANGED <<remote, run, prev, mpc, crash, bgen, backup, workers, orphans, results,
                   index, num_files, total_size, cksums, disk, requested, reports, hf, pf>>

\* ... or the next record, put on the task queue as a call of fetch.
TaskPut ==
    /\ mpc = "results"
    /\ handler = "run"
    /\ fgen.pc = "items"
    /\ LET g == LpYield(fgen) IN
        /\ fgen' = g
        /\ handler' = IF g.pc = "done" THEN "done" ELSE "run"
        /\ length' = IF g.pc = "done" THEN Len(g.yielded) ELSE length
    /\ inqueue' = Append(inqueue, Task("fetch", LpItem(fgen), "none"))
    /\ UNCHANGED <<remote, run, prev, fails, mpc, crash, bgen, backup, workers, orphans,
                   results, index, num_files, total_size, cksums, disk, requested,
                   reports, hf, pf>>

\* ------------------------------------------------------------------ main

Caught == {"KeyError", "ValueError"}

Report(kind, exc) ==
    [backup |-> backup.name[4], kind |-> kind, num_files |-> num_files,
     total_size |-> total_size, exc |-> exc]

\* Leaving the `with ThreadPool(10)` block: terminate() stops the task handler
\* and empties the task queue. It does not stop a thread that is running a task.
Terminate ==
    /\ fgen' = NotStarted
    /\ handler' = "none"
    /\ inqueue' = <<>>
    /\ workers' = {}
    /\ results' = <<>>
    /\ length' = -1
    /\ index' = 0
    /\ num_files' = 0
    /\ total_size' = 0

\* The process is gone, and every thread and object of it. What it printed,
\* the files and md5sum.txt stay.
Gone ==
    /\ Terminate
    /\ bgen' = NotStarted
    /\ backup' = NoBackup
    /\ orphans' = {}

\* An exception leaves fetch_all. main's except clause (line 321) takes a
\* KeyError or a ValueError, prints the warning and goes on to the next backup;
\* any other exception leaves main and ends the process.
Raise(exc) ==
    IF exc \in Caught
    THEN /\ Terminate
         /\ mpc' = "backups"
         /\ orphans' = orphans \cup workers
         /\ reports' = Append(reports, Report("warning", exc))
         /\ UNCHANGED <<crash, bgen, backup>>
    ELSE /\ Gone
         /\ mpc' = "crashed"
         /\ crash' = [exc |-> exc, at |-> "fetch_all"]
         /\ reports' = reports

\* Line 307: the for statement asks the backups generator for a page. An
\* exception here is outside the try statement.
MainBackupsRequest ==
    /\ mpc = "backups"
    /\ bgen.pc = "request"
    /\ \E outcome \in Outcomes :
        /\ MayBe(outcome)
        /\ fails' = fails + Failed(outcome)
        /\ LET g == LpRequest(bgen, BackupPages(remote), outcome) IN
            IF g.pc = "raised"
            THEN /\ Gone
                 /\ mpc' = "crashed"
                 /\ crash' = [exc |-> g.exc, at |-> "backups"]
            ELSE /\ bgen' = g
                 /\ UNCHANGED <<mpc, crash, orphans, backup, pool>>
    /\ UNCHANGED <<remote, run, prev, cksums, disk, requested, reports, hf, pf>>

\* Lines 307-317: the next backup, the answer to the prompt, the header, and
\* fetch_all up to its for statement: the pool and its iterator are set up.
MainNextBackup ==
    /\ mpc = "backups"
    /\ bgen.pc = "items"
    /\ backup' = LpItem(bgen)
    /\ bgen' = LpYield(bgen)
    /\ \E answer \in {"y", "n"} :
        IF answer = "y"
        THEN /\ mpc' = "results"
             /\ fgen' = list_path
             /\ handler' = "run"
             /\ UNCHANGED <<inqueue, workers, results, length, index, num_files, total_size>>
        ELSE UNCHANGED <<mpc, pool>>
    /\ UNCHANGED <<remote, run, prev, fails, crash, orphans, cksums, disk, requested,
                   reports, hf, pf>>

\* Lines 163-173: main takes the next result. A result that is an exception is
\* raised here; otherwise the counters, the progress line (which divides by the
\* backup's declared size) and the line of md5sum.txt.
MainResult ==
    /\ mpc = "results"
    /\ results # <<>>
    /\ LET r == Head(results) IN
        IF ~r.ok THEN Raise(r.exc) /\ cksums' = cksums
        ELSE IF backup.sizeBytes = 0 THEN Raise("ZeroDivisionError") /\ cksums' = cksums
        ELSE /\ num_files' = num_files + 1
             /\ total_size' = total_size + r.size
             /\ cksums' = Append(cksums, [hex |-> r.md5_hash, name |-> r.name])
             /\ results' = Tail(results)
             /\ index' = index + 1
             /\ UNCHANGED <<mpc, crash, orphans, reports, fgen, handler, inqueue, workers,
                            length, bgen, backup>>
    /\ UNCHANGED <<remote, run, prev, fails, disk, requested, hf, pf>>

\* Line 175: every task's result has been taken; the pool is left and the
\* summary printed.
MainSummary ==
    /\ mpc = "results"
    /\ results = <<>>
    /\ index = length
    /\ Terminate
    /\ mpc' = "backups"
    /\ reports' = Append(reports, Report("summary", "none"))
    /\ UNCHANGED <<remote, run, prev, fails, crash, bgen, backup, orphans, cksums, disk,
                   requested, hf, pf>>

\* The backups generator returns: main leaves the with block and ends, and
\* the pools' daemon threads end with it.
MainExit ==
    /\ mpc = "backups"
    /\ bgen.pc = "done"
    /\ Gone
    /\ mpc' = "exited"
    /\ UNCHANGED <<remote, run, prev, fails, crash, cksums, disk, requested, reports, hf, pf>>

\* The process is terminated from outside, at any point.
Kill ==
    /\ Running
    /\ Gone
    /\ mpc' = "killed"
    /\ UNCHANGED <<remote, run, prev, fails, crash, cksums, disk, requested, reports, hf, pf>>

Ended == mpc \in {"exited", "crashed", "killed"}

\* sync is run again in the same directory against the same remote.
StartRun ==
    /\ Ended
    /\ run < MaxRuns
    /\ run' = run + 1
    /\ prev' = [end |-> mpc, fails |-> fails,
                synced |-> {reports[i].backup : i \in {j \in 1..Len(reports) :
                                                        reports[j].kind = "summary"}}]
    /\ Start
    /\ UNCHANGED <<remote, disk, hf, pf>>

Next ==
    \/ MainBackupsRequest
    \/ MainNextBackup
    \/ TaskRequest
    \/ TaskPut
    \/ WorkerTake
    \/ WorkerRequest
    \/ WorkerWrite
    \/ OrphanRequest
    \/ OrphanWrite
    \/ MainResult
    \/ MainSummary
    \/ MainExit
    \/ Kill
    \/ StartRun

Spec == Init /\ [][Next]_vars

\* ------------------------------------------------------------------ one run, undisturbed

\* The steps of the main thread, of the pool's task handler thread, of its
\* worker threads and of the threads a terminated pool has left.
MainThread ==
    MainBackupsRequest \/ MainNextBackup \/ MainResult \/ MainSummary \/ MainExit

TaskHandler == TaskRequest \/ TaskPut

Workers == WorkerTake \/ WorkerRequest \/ WorkerWrite

Orphans == OrphanRequest \/ OrphanWrite

\* One run of sync that nobody kills: every thread that can take a step
\* eventually takes one, and every request returns (each request is one step).
NextSync == MainThread \/ TaskHandler \/ Workers \/ Orphans

SpecSync ==
    /\ Init
    /\ [][NextSync]_vars
    /\ WF_vars(MainThread)
    /\ WF_vars(TaskHandler)
    /\ WF_vars(Workers)
    /\ WF_vars(Orphans)

\* ------------------------------------------------------------------ list

\* Pages of a file listing under the list command.
ListPages == 3

ListLayouts ==
    {l \in UNION {[1..k -> 0..MaxFiles] : k \in 1..ListPages} : SumSeq(l) = MaxFiles}

RemotesList ==
    {Remote(l, 0, <<"sizeBytes", Missing>>, Declared) : l \in ListLayouts}
    \cup {Remote(<<MaxFiles - 1, 1>>, i, d, Declared) :
            i \in 1..MaxFiles, d \in Defects \cup {<<"sizeBytes", Garbled>>}}

InitList ==
    /\ remote \in RemotesList
    /\ run = 1
    /\ prev = FirstRun
    /\ disk = [n \in LocalNames |-> NoFile]
    /\ hf = NoHf
    /\ pf = NoPf
    /\ Started

\* Lines 272-280: the next backup, the answer to the prompt, the counters.
ListNextBackup ==
    /\ mpc = "backups"
    /\ bgen.pc = "items"
    /\ backup' = LpItem(bgen)
    /\ bgen' = LpYield(bgen)
    /\ \E answer \in {"y", "n"} :
        IF answer = "y"
        THEN /\ mpc' = "files"
             /\ fgen' = list_path
             /\ num_files' = 0
             /\ total_size' = 0
        ELSE UNCHANGED <<mpc, fgen, num_files, total_size>>
    /\ UNCHANGED <<remote, run, prev, fails, crash, handler, inqueue, workers, orphans,
                   results, length, index, cksums, disk, requested, reports, hf, pf>>

\* Line 282: the for statement asks backup_files(backup) for a page. An
\* exception here is outside any try statement.
ListRequest ==
    /\ mpc = "files"
    /\ fgen.pc = "request"
    /\ \E outcome \in Outcomes :
        /\ MayBe(outcome)
        /\ fails' = fails + Failed(outcome)
        /\ LET g == LpRequest(fgen, FilePages(remote, backup.name[4]), outcome) IN
            IF g.pc = "raised"
            THEN /\ Gone
                 /\ mpc' = "crashed"
                 /\ crash' = [exc |-> g.exc, at |-> "list"]
            ELSE /\ fgen' = g
                 /\ UNCHANGED <<mpc, crash, bgen, backup, orphans, handler, inqueue,
                                workers, results, length, index, num_files, total_size>>
    /\ UNCHANGED <<remote, run, prev, cksums, disk, requested, reports, hf, pf>>

\* The exception, if any, that leaves the body of the loop for one record
\* (lines 283-301). int(file['sizeBytes']) may raise KeyError or ValueError; the
\* except clause then formats os.path.join(<a list>), which raises TypeError.
list_body(file) ==
    IF file.sizeBytes \in {Missing, Garbled} THEN "TypeError" ELSE "none"

\* Lines 282-301: the next record. num_files is incremented before the size is
\* converted; the path is printed.
ListFile ==
    /\ mpc = "files"
    /\ fgen.pc = "items"
    /\ IF list_body(LpItem(fgen)) = "none"
       THEN /\ fgen' = LpYield(fgen)
            /\ num_files' = num_files + 1
            /\ total_size' = total_size + LpItem(fgen).sizeBytes
            /\ UNCHANGED <<mpc, crash, bgen, backup, orphans, handler, inqueue, workers,
                           results, length, index>>
       ELSE /\ Gone
            /\ mpc' = "crashed"
            /\ crash' = [exc |-> list_body(LpItem(fgen)), at |-> "list"]
    /\ UNCHANGED <<remote, run, prev, fails, cksums, disk, requested, reports, hf, pf>>

\* Line 303: the listing is over; the summary is printed.
ListSummary ==
    /\ mpc = "files"
    /\ fgen.pc = "done"
    /\ mpc' = "backups"
    /\ reports' = Append(reports, Report("summary", "none"))
    /\ fgen' = NotStarted
    /\ num_files' = 0
    /\ total_size' = 0
    /\ UNCHANGED <<remote, run, prev, fails, crash, bgen, backup, handler, inqueue, workers,
                   orphans, results, length, index, cksums, disk, requested, hf, pf>>

NextList ==
    \/ MainBackupsRequest
    \/ ListNextBackup
    \/ ListRequest
    \/ ListFile
    \/ ListSummary
    \/ MainExit

SpecList == InitList /\ [][NextList]_vars

\* ------------------------------------------------------------------ have_file

\* Length of a local file.
MaxLen == 2

RECURSIVE Strings(_)
Strings(n) ==
    IF n = 0 THEN {<<>>}
    ELSE Strings(n - 1) \cup {Append(t, c) : t \in Strings(n - 1), c \in Byte}

InitHaveFile ==
    /\ remote = Remote(<<MaxFiles>>, 0, <<"sizeBytes", Missing>>, Declared)
    /\ run = 1
    /\ prev = FirstRun
    /\ disk = [n \in LocalNames |-> NoFile]
    /\ \E f \in {NoFile} \cup {OnDisk(t) : t \in Strings(MaxLen)},
          size \in 0..MaxLen, md5Hash \in 0..3 :
        hf = [NoHf EXCEPT !.f = f, !.size = size, !.md5Hash = md5Hash]
    /\ pf = NoPf
    /\ Started

\* One call have_file(file, size, md5).
HaveFileCall ==
    /\ ~hf.called
    /\ hf' = [hf EXCEPT !.called = TRUE,
                        !.result = have_file(hf.f, hf.size, hf.md5Hash).result,
                        !.read = have_file(hf.f, hf.size, hf.md5Hash).read]
    /\ UNCHANGED <<remote, run, prev, fails, mpc, crash, bgen, backup, pool, orphans,
                   cksums, disk, requested, reports, pf>>

NextHaveFile == HaveFileCall

SpecHaveFile == InitHaveFile /\ [][NextHaveFile]_vars

\* ------------------------------------------------------------------ paths

\* Segments of a record name after clients/wa/backups.
MaxSegs == 3

PathSegs == {"b1", "files", "f1", ".."}

RECURSIVE Seqs(_, _)
Seqs(S, n) ==
    IF n = 0 THEN {<<>>}
    ELSE Seqs(S, n - 1) \cup {Append(t, c) : t \in Seqs(S, n - 1), c \in S}

\* Record names the server may list: a name is the sequence of the segments
\* that file['name'].split("/") gives. Names of fewer than 4 segments, names
\* of the usual shape and names with '..' segments.
RecordNames ==
    {Prefix(<<"clients", "wa", "backups">>, k) : k \in 0..2}
    \cup {<<"clients", "wa", "backups">> \o t : t \in Seqs(PathSegs, MaxSegs)}

\* Line 147: os.path.join(*file['name'].split("/")[3:]). os.path.join needs
\* one argument at least: with none it raises TypeError.
fetch_name(name) ==
    IF LocalName(name) = <<>> THEN [exc |-> "TypeError", path |-> <<>>]
    ELSE [exc |-> "none", path |-> LocalName(name)]

\* Where a relative path leads from the working directory, the destination
\* root: d is the depth below the root reached so far.
RECURSIVE Walk(_, _)
Walk(path, d) ==
    IF d < 0 THEN "outside"
    ELSE IF path = <<>> THEN (IF d = 0 THEN "root" ELSE "inside")
    ELSE Walk(Tail(path), IF Head(path) = ".." THEN d - 1 ELSE d + 1)

\* Lines 62-64: the directories are made and the path is opened with 'bw' as
\* it is given. A path that ends in '..' names a directory and open raises;
\* any other path is created or truncated where it leads.
open_bw(path) ==
    IF path[Len(path)] = ".."
    THEN [exc |-> "IsADirectoryError", where |-> Walk(path, 0), written |-> FALSE]
    ELSE [exc |-> "none", where |-> Walk(path, 0), written |-> TRUE]

InitPath ==
    /\ remote = Remote(<<MaxFiles>>, 0, <<"sizeBytes", Missing>>, Declared)
    /\ run = 1
    /\ prev = FirstRun
    /\ disk = [n \in LocalNames |-> NoFile]
    /\ hf = NoHf
    /\ \E name \in RecordNames : pf = [NoPf EXCEPT !.name = name]
    /\ Started

\* fetch of a record with the given name, whose file is not there: the local
\* name, then download_file.
FetchPath ==
    /\ ~pf.called
    /\ LET n == fetch_name(pf.name) IN
        pf' = IF n.exc # "none"
              THEN [pf EXCEPT !.called = TRUE, !.exc = n.exc]
              ELSE [pf EXCEPT !.called = TRUE, !.path = n.path,
                              !.exc = open_bw(n.path).exc,
                              !.where = open_bw(n.path).where,
                              !.written = open_bw(n.path).written]
    /\ UNCHANGED <<remote, run, prev, fails, mpc, crash, bgen, backup, pool, orphans,
                   cksums, disk, requested, reports, hf>>

NextPath == FetchPath

SpecPath == InitPath /\ [][NextPath]_vars

\* ------------------------------------------------------------------ claims

\* The record the server lists for the file with local name n, well-formed.
RecordOf(n) == FileRecord("b1", CHOOSE i \in FileIds : LocalName(FileName("b1", i)) = n)

\* The local file n passes have_file for its record.
Valid(n) == have_file(disk[n], RecordOf(n).sizeBytes, RecordOf(n).md5Hash).result

\* The local file n holds the whole content the server has for it.
Complete(n) == disk[n] = OnDisk(Media(RecordOf(n).name))

Logged == {cksums[k].name : k \in 1..Len(cksums)}

Threads == workers \cup orphans

PagesOf(b) == FilePages(remote, b)

\* C1: when a run of sync is terminated, every line of the log is well-formed
\* and names another file, and each of these files is fully written and valid
\* on disk. (The claim says more: that no other file is valid on disk.)
C1_LoggedFilesValid ==
    mpc = "killed" =>
        /\ \A k \in 1..Len(cksums) :
            /\ cksums[k].name \in LocalNames
            /\ cksums[k].hex = RecordOf(cksums[k].name).md5Hash
        /\ Cardinality(Logged) = Len(cksums)
        /\ \A n \in Logged : Valid(n)

\* C2: in a run that follows a run which synced the backup to its summary
\* with no failed request, no media request is issued and every destination
\* file keeps the content the earlier run left, the whole content of the file.
C2_Idempotent ==
    (run > 1 /\ "b1" \in prev.synced /\ prev.fails = 0) =>
        /\ requested = {}
        /\ \A n \in LocalNames : Complete(n)

\* C2 witness: the second such run has synced the backup to its summary.
C2_Witness ==
    /\ run = 2 /\ "b1" \in prev.synced /\ prev.fails = 0
    /\ \E k \in 1..Len(reports) :
        /\ reports[k].backup = "b1"
        /\ reports[k].kind = "summary"
        /\ reports[k].num_files = MaxFiles
    /\ Len(cksums) = MaxFiles

\* C3: under the list command, list_path yields the records of the pages in
\* page order and server order, sends no token with the first request and with
\* each later request the token the page before returned, and returns after
\* exactly as many requests as there are pages, having yielded every record.
C3_PaginationComplete ==
    mpc = "files" =>
        LET pages == PagesOf(backup.name[4]) IN
        /\ IsPrefix(fgen.yielded, Flatten(pages))
        /\ Len(fgen.requests) <= Len(pages)
        /\ \A k \in 1..Len(fgen.requests) :
            fgen.requests[k] = IF k = 1 THEN None
                               ELSE ServePage(pages, fgen.requests[k - 1]).nextPageToken
        /\ fgen.pc = "done" =>
            /\ fgen.yielded = Flatten(pages)
            /\ Len(fgen.requests) = Len(pages)

\* C3 witness: a listing of three pages, the second empty, has returned.
C3_Witness ==
    /\ mpc = "files"
    /\ fgen.pc = "done"
    /\ remote.layout = <<1, 0, MaxFiles - 1>>
    /\ Len(fgen.yielded) = MaxFiles

\* C4: have_file returns true exactly when the file exists, its size is the
\* expected size and the md5 of its bytes is the expected md5; when the file is
\* missing or of another size it returns false without having read the file.
C4_IntegrityGate ==
    hf.called =>
        /\ hf.result <=> (/\ hf.f.exists
                          /\ Len(hf.f.data) = hf.size
                          /\ md5(hf.f.data) = hf.md5Hash)
        /\ (~hf.f.exists \/ Len(hf.f.data) # hf.size) => (~hf.result /\ ~hf.read)

\* C4 witness: a file of another size whose bytes have the expected md5.
C4_Witness ==
    /\ hf.called
    /\ hf.f.exists
    /\ Len(hf.f.data) # hf.size
    /\ md5(hf.f.data) = hf.md5Hash
    /\ ~hf.result

\* C5: no exception raised inside fetch_all ends the run.
C5_FailureIsolated == ~(mpc = "crashed" /\ crash.at = "fetch_all")

\* C6: when no request has failed, the sync of the first backup ends with its
\* summary, and every well-formed record of it has been counted and logged: a
\* malformed record is skipped and nothing else.
C6_OnlyMalformedSkipped ==
    \A k \in 1..Len(reports) :
        (reports[k].backup = "b1" /\ fails = 0 /\ remote.declared # 0) =>
            /\ reports[k].kind = "summary"
            /\ reports[k].num_files = Cardinality(FileIds \ {remote.bad})
            /\ \A i \in FileIds \ {remote.bad} : LocalName(FileName("b1", i)) \in Logged

\* C7: a destination file that is not the whole content of its file never
\* passes have_file, whatever run left it and wherever the run was killed; and
\* a file being fetched holds, with what is still to be written, the response
\* body from its first byte: nothing of an earlier, partial file is kept.
C7_PartialWriteDetected ==
    /\ \A n \in LocalNames : (disk[n].exists /\ ~Complete(n)) => ~Valid(n)
    /\ \A w \in Threads :
        w.pc = "stream" =>
            disk[Local(w)].data \o w.left =
                IF w.response = "served" THEN Media(w.file.name) ELSE ErrBody

\* C7 witness: after a killed run, a partly written file has failed have_file
\* and its worker is about to request it again.
C7_Witness ==
    /\ run = 2
    /\ prev.end = "killed"
    /\ \E w \in workers :
        /\ w.pc = "request"
        /\ disk[Local(w)].exists
        /\ disk[Local(w)].data # <<>>
        /\ disk[Local(w)].data # Media(w.file.name)
        /\ IsPrefix(disk[Local(w)].data, Media(w.file.name))

\* C8: at most PoolSize calls of fetch are running in a pool.
C8_BoundedConcurrency == Cardinality(workers) <= PoolSize

\* C8 witness: every worker is running fetch and a record waits in the queue.
C8_Witness ==
    /\ Cardinality(workers) = PoolSize
    /\ inqueue # <<>>
    /\ Head(inqueue).func = "fetch"

\* C9: a listing whose generator returned has yielded every record of every
\* page, and a summary counts every record of its backup; and the exception of
\* a failed page request is on its way to main as a task or a result.
C9_NoSilentTruncation ==
    /\ (mpc = "results" /\ fgen.pc = "done") =>
            fgen.yielded = Flatten(PagesOf(backup.name[4]))
    /\ \A k \in 1..Len(reports) :
        reports[k].kind = "summary" =>
            reports[k].num_files = Len(Flatten(PagesOf(reports[k].backup)))
    /\ (mpc = "results" /\ fgen.pc = "raised") =>
            \/ \E k \in 1..Len(inqueue) : inqueue[k] = Task("reraise", NoRecord, fgen.exc)
            \/ \E k \in 1..Len(results) : results[k] = Raised(fgen.exc)

\* C9 witness: a page request failed after records of an earlier page were
\* logged, and main has printed the warning for the backup.
C9_Witness ==
    /\ remote.bad = 0
    /\ fails = 1
    /\ requested = Logged
    /\ Logged # {}
    /\ \E k \in 1..Len(reports) :
        /\ reports[k].backup = "b1"
        /\ reports[k].kind = "warning"
        /\ reports[k].num_files > 0

\* C10: a listing that returns without an item is the listing of no record,
\* and the body a thread writes to a file is the body of a served response,
\* never that of a failed request.
C10_FailureNotData ==
    /\ (mpc = "results" /\ fgen.pc = "done" /\ fgen.yielded = <<>>) =>
            Flatten(PagesOf(backup.name[4])) = <<>>
    /\ \A w \in Threads : w.pc = "stream" => w.response = "served"

\* The backup has been synced to its summary in this run.
Synced(b) ==
    \E k \in 1..Len(reports) : reports[k].backup = b /\ reports[k].kind = "summary"

\* C11: in a run that follows a killed run, no two lines of the log name the
\* same file, and once the backup is synced to its summary every file has its
\* line: those the killed run completed and those it did not.
C11_RerunCompletesLog ==
    (run > 1 /\ prev.end = "killed") =>
        /\ Cardinality(Logged) = Len(cksums)
        /\ Synced("b1") => (Logged = LocalNames /\ requested \subseteq Logged)

\* C11 witness: the run after a killed run has synced the backup, skipping the
\* files the killed run completed and downloading the others.
C11_Witness ==
    /\ run = 2
    /\ prev.end = "killed"
    /\ Synced("b1")
    /\ requested # {}
    /\ requested # LocalNames
    /\ Len(cksums) = MaxFiles

\* C12: whatever size the backup declares, a sync in which every request
\* succeeds and every record is well-formed is not ended by an exception: the
\* declared size only enters the percentage displayed.
C12_DeclaredSizeCosmetic == (fails = 0 /\ remote.bad = 0) => mpc # "crashed"

\* The lines of a log that has one line per file record of the backup.
AllLines == {[hex |-> RecordOf(n).md5Hash, name |-> n] : n \in LocalNames}

\* A summary of the backup that counts every record and the sum of the sizes
\* the records declare.
FullSummary ==
    \E k \in 1..Len(reports) :
        /\ reports[k].backup = "b1"
        /\ reports[k].kind = "summary"
        /\ reports[k].num_files = MaxFiles
        /\ reports[k].total_size = SumSeq([i \in 1..MaxFiles |-> FileRecord("b1", i).sizeBytes])

\* C13: a sync of a backup of well-formed records, none of them on disk, with
\* every request succeeding, is not ended by an exception; when it has synced
\* the backup it has requested and written every file, logged one line per
\* record and reported their number and the sum of their sizes. A sync after
\* it makes no media request and logs the same set of lines.
C13_Scenario ==
    /\ (run = 1 /\ remote.bad = 0 /\ fails = 0) =>
            /\ ~(mpc = "crashed" /\ crash.at = "fetch_all")
            /\ Synced("b1") =>
                    /\ FullSummary
                    /\ requested = LocalNames
                    /\ \A n \in LocalNames : Complete(n)
                    /\ Len(cksums) = MaxFiles
                    /\ Logged = LocalNames
    /\ (run = 2 /\ "b1" \in prev.synced /\ prev.fails = 0 /\ fails = 0) =>
            /\ requested = {}
            /\ Synced("b1") =>
                    /\ FullSummary
                    /\ {cksums[k] : k \in 1..Len(cksums)} = AllLines

\* The number of items on the first k pages.
Upto(pages, k) == Len(Flatten(Prefix(pages, k)))

\* The generator g over the given pages has requested a page only when every
\* item of the pages before it had been yielded, holds the page it requested
\* last and no other, and has requested no page after the last.
Lazy(g, pages) ==
    LET k == Len(g.requests) IN
    /\ k <= Len(pages)
    /\ k > 0 => Len(g.yielded) >= Upto(pages, k - 1)
    /\ Len(g.yielded) <= Upto(pages, k)
    /\ g.pc = "items" => g.page.items = pages[k]
    /\ g.pc = "request" =>
            /\ Len(g.yielded) = Upto(pages, k)
            /\ k > 0 => g.page.hasNext
    /\ g.pc = "done" => k = Len(pages)

\* C14: list_path requests a page only when every item of the page before has
\* been yielded to its consumer, and requests no page after one that has no
\* nextPageToken: for the listing of the backups and for that of the files.
C14_PaginatorLazy ==
    /\ Running => Lazy(bgen, BackupPages(remote))
    /\ mpc = "results" => Lazy(fgen, PagesOf(backup.name[4]))

\* C14 witness: the second page of files has been requested, after both items
\* of the first were handed over, and its item is the next to yield.
C14_Witness ==
    /\ mpc = "results"
    /\ remote.layout = <<MaxFiles - 1, 1>>
    /\ remote.bad = 0
    /\ Len(fgen.requests) = 2
    /\ fgen.pc = "items"
    /\ Len(fgen.yielded) = MaxFiles - 1

\* C15: in every state of a sync, every line of the log names a file whose
\* content on disk has the size its record declares and the md5 the line gives.
C15_LoggedImpliesValid ==
    \A k \in 1..Len(cksums) :
        LET n == cksums[k].name IN
        /\ disk[n].exists
        /\ Len(disk[n].data) = RecordOf(n).sizeBytes
        /\ md5(disk[n].data) = cksums[k].hex

\* The records list_path has yielded whose call of fetch has not ended: those
\* waiting in the pool's task queue and those a worker is running.
Pending == Len(fgen.yielded) - (index + Len(results))

\* C16: list_path is asked for a record only when a worker is there to take
\* it: the records pulled and not yet completed are never more than the
\* workers of the pool, however many records the backup has.
C16_ListingBackpressure == mpc = "results" => Pending <= PoolSize

\* C17: the log changes only by a step of the main thread in fetch_all's loop,
\* which appends the whole line of the result it has taken while no thread of
\* a pool moves; or by the start of a run, which empties it. No step of a
\* worker writes to the log, so no two appends are ever in progress.
C17_SerializedAppends ==
    [][cksums' # cksums =>
        \/ /\ mpc = "results"
           /\ results # <<>>
           /\ Head(results).ok
           /\ cksums' = Append(cksums, [hex |-> Head(results).md5_hash,
                                        name |-> Head(results).name])
           /\ results' = Tail(results)
           /\ workers' = workers
           /\ orphans' = orphans
        \/ /\ cksums' = <<>>
           /\ run' = run + 1]_vars

\* C17 witness: a line is in the log, another result waits for the main thread
\* and a worker is still writing its file.
C17_Witness ==
    /\ mpc = "results"
    /\ Len(cksums) >= 1
    /\ results # <<>>
    /\ Head(results).ok
    /\ \E w \in workers : w.pc = "stream"

\* C18: a destination file that passes have_file for its record is left as
\* it is by every step, and no media request is issued for it; a thread that
\* is about to request a file, or is writing one, has a file that fails.
C18_SkipLeavesFile ==
    [][/\ \A n \in LocalNames :
            Valid(n) => /\ disk'[n] = disk[n]
                        /\ n \in requested' => n \in requested
       /\ \A w \in Threads : ~Valid(Local(w))]_vars

\* C18 witness: in a run after a killed run, a record whose file is valid has
\* been skipped (its result is with main, no request was made for it) while a
\* worker is about to request a file that failed the test.
C18_Witness ==
    /\ run = 2
    /\ mpc = "results"
    /\ \E n \in LocalNames :
        /\ Valid(n)
        /\ n \notin requested
        /\ n \in Logged
    /\ \E w \in workers : w.pc = "request"

\* C19: the path fetch writes is the record name without its first three
\* segments, and it lies inside the destination root, whatever the name.
C19_DestinationContained ==
    (pf.called /\ pf.written) =>
        /\ pf.path = SubSeq(pf.name, 4, Len(pf.name))
        /\ pf.where = "inside"

\* Every record the server lists for the first backup has been counted once
\* in the backup's summary and has one line in the log.
ProcessedOnce ==
    /\ \E k \in 1..Len(reports) :
        /\ reports[k].backup = "b1"
        /\ reports[k].kind = "summary"
        /\ reports[k].num_files = Len(Flatten(PagesOf("b1")))
    /\ Len(cksums) = Len(Flatten(PagesOf("b1")))
    /\ Cardinality(Logged) = Len(cksums)

\* C20: in a sync of the first backup in which every request returns what was
\* asked and every thread is scheduled, fetch_all eventually returns and the
\* summary is printed, every listed record having been processed once.
C20_SyncReachesDone ==
    (mpc = "results" /\ backup.name = BackupName("b1")) ~> (ProcessedOnce \/ fails > 0)

====
